---- MODULE Spec2Model ----
(***************************************************************************)
(* A state-machine model of csbdeep/models.py: CARE.predict (validation,   *)
(* resize/normalize, the out-of-memory retry loop, mean/scale split and    *)
(* channel placement) and CARE.prepare_for_training / CARE.train.          *)
(*                                                                         *)
(* A tensor is a record                                                    *)
(*    ax   : the identity of each axis, in order (an input axis is named   *)
(*           by its index in img, the predicted channel axis by ChanAxis)  *)
(*    ext  : the extent of each axis (numpy's shape)                       *)
(*    ch   : the predicted channels the tensor holds, in order             *)
(*    norm : whether the intensities are in normalized units               *)
(* An optional value (Python's None) is a sequence of length 0 or 1.       *)
(***************************************************************************)
EXTENDS Integers, Sequences, FiniteSets, TLC

\* ------------------------------------------------------------- bounds
MaxExtent == 2
MaxTiles0 == 2
MaxT == 5
MaxTrainCalls == 4

ImgNdims == {2, 3}
ChannelCounts == {1, 2}
Calls == {1, 2}

\* ---------------------------------------------------------- constants
unet_n_depth == 2

None == << >>
Some(v) == << v >>
Val(o) == o[1]

ChanAxis == 0 - 1

Max(a, b) == IF a >= b THEN a ELSE b

VARIABLES
  config,          \* self.config
  T,               \* the device: a pass with n_tiles >= T does not exhaust memory
  resizers,        \* the PadAndCropResizer objects: the default argument and one per caller
  args,            \* the arguments of each predict call
  pc,              \* where each predict call stands
  channel,         \* local channel (after line 275)
  n_tiles,         \* local n_tiles
  x,               \* local x
  mean,            \* local mean
  scale,           \* local scale
  raised,          \* the exception that left the call, "" if none
  log,             \* what each call has invoked so far, in order
  padOf,           \* whose padding each call's resizer held when the call used it
  model_prepared,  \* self._model_prepared
  callbacks,       \* self.callbacks
  trainCfg,        \* config.train_checkpoint / train_tensorboard / train_reduce_lr set?
  trainLog         \* the training calls made on the instance, in order

predictVars == << config, T, resizers, args, pc, channel, n_tiles, x, mean, scale,
                  raised, log, padOf >>
trainVars == << model_prepared, callbacks, trainCfg, trainLog >>
vars == << config, T, resizers, args, pc, channel, n_tiles, x, mean, scale,
           raised, log, padOf, model_prepared, callbacks, trainCfg, trainLog >>

\* ------------------------------------------------- pure parts of predict

\* img as a tensor: every axis named by its index, no predicted channels
ImgTensor(shape) ==
  [ ax |-> [ i \in 1..Len(shape) |-> i - 1 ], ext |-> shape, ch |-> << >>, norm |-> FALSE ]

\* line 273
ChannelInRange(ch, ndim) == (0 - ndim) <= ch /\ ch < ndim

\* lines 274-275: Python's %= on a negative channel
NormChannel(ch, ndim) == IF ch < 0 THEN ch % ndim ELSE ch

\* a validation that forgets the single-channel check of line 271
ArgsValidNoCountCheck(cfg, a) ==
  IF a.channel = None
    THEN TRUE
    ELSE /\ ChannelInRange(Val(a.channel), Len(a.shape))
         /\ cfg.n_channel_in = a.shape[NormChannel(Val(a.channel), Len(a.shape)) + 1]

\* lines 270-276: does validation pass?
ArgsValid(cfg, a) ==
  IF a.channel = None
    THEN cfg.n_channel_in = 1
    ELSE /\ ChannelInRange(Val(a.channel), Len(a.shape))
         /\ cfg.n_channel_in = a.shape[NormChannel(Val(a.channel), Len(a.shape)) + 1]

\* lines 274-275: the local channel after validation
ChannelAfterValidation(a) ==
  IF a.channel = None THEN None
  ELSE Some(NormChannel(Val(a.channel), Len(a.shape)))

\* line 278
n_channel_predicted(cfg) == cfg.n_channel_out * (IF cfg.probabilistic THEN 2 ELSE 1)

\* line 281
div_n(cfg) == 2 ^ cfg.unet_n_depth

\* lines 160-170: the network is built with n_channel_out outputs, doubled if prob_out
NetChannels(cfg) == cfg.n_channel_out * (IF cfg.probabilistic THEN 2 ELSE 1)

\* the positions (1-based) of the axes of t other than the channel axis
SpatialPos(t, chan) ==
  SelectSeq([ i \in 1..Len(t.ax) |-> i ],
            LAMBDA i : chan = None \/ i # Val(chan) + 1)

\* lines 297-300: shape_out
ShapeOut(cfg, t, chan) ==
  << n_channel_predicted(cfg) >> \o
  [ k \in 1..Len(SpatialPos(t, chan)) |-> t.ext[SpatialPos(t, chan)[k]] ]

\* line 289: from_tensor(keras_model.predict(to_tensor(x, channel)), channel=0):
\* the predicted channels first, then the spatial axes of x in their order
PredictWhole(cfg, t, chan) ==
  [ ax   |-> << ChanAxis >> \o
             [ k \in 1..Len(SpatialPos(t, chan)) |-> t.ax[SpatialPos(t, chan)[k]] ],
    ext  |-> << NetChannels(cfg) >> \o
             [ k \in 1..Len(SpatialPos(t, chan)) |-> t.ext[SpatialPos(t, chan)[k]] ],
    ch   |-> [ k \in 1..NetChannels(cfg) |-> k - 1 ],
    norm |-> t.norm ]

\* line 302: tiled_prediction stitches the tiles into a buffer of shape_out
TiledPrediction(cfg, t, shape_out, chan) ==
  [ ax   |-> << ChanAxis >> \o
             [ k \in 1..Len(SpatialPos(t, chan)) |-> t.ax[SpatialPos(t, chan)[k]] ],
    ext  |-> shape_out,
    ch   |-> [ k \in 1..shape_out[1] |-> k - 1 ],
    norm |-> t.norm ]

\* lines 294-302: what a pass that completes assigns to x
PassResult(cfg, t, chan, n) ==
  IF n = 1 THEN PredictWhole(cfg, t, chan)
  ELSE TiledPrediction(cfg, t, ShapeOut(cfg, t, chan), chan)

\* a retry rule without the floor of 4
NextTilesNoFloor(n) == 2 * n

\* line 305
NextTiles(n) == Max(4, 2 * n)

\* a bare except clause
CaughtAll(e) == TRUE

\* an except clause that misses the memory error
CaughtNothing(e) == FALSE

\* line 304: except tf.errors.ResourceExhaustedError
Caught(e) == e = "ResourceExhaustedError"

\* a pass that stores what it computed although it raised
XAfterRaiseStored(cfg, t, chan, n) == PassResult(cfg, t, chan, n)

\* lines 293-304: x when the pass raised: the assignment did not happen
XAfterRaise(cfg, t, chan, n) == t

\* line 308
ShapeChecks(cfg, t) == t.ext[1] = n_channel_predicted(cfg)

\* x[a:b] along axis 0 (Python slice, 0-based, b exclusive)
SliceLeading(t, a, b) ==
  [ t EXCEPT !.ext = << Max(0, b - a) >> \o Tail(t.ext),
             !.ch  = SubSeq(t.ch, a + 1, b) ]

\* a split that takes the second half for the mean
SplitMeanSwapped(cfg, t) ==
  IF cfg.probabilistic
    THEN SliceLeading(t, n_channel_predicted(cfg) \div 2, t.ext[1])
    ELSE t

\* lines 313-317
SplitMean(cfg, t) ==
  IF cfg.probabilistic
    THEN SliceLeading(t, 0, n_channel_predicted(cfg) \div 2)
    ELSE t

SplitScale(cfg, t) ==
  IF cfg.probabilistic
    THEN Some(SliceLeading(t, n_channel_predicted(cfg) \div 2, t.ext[1]))
    ELSE None

\* the channel axis left in front
MoveNowhere(s, dst) == s

\* np.moveaxis(s, 0, dst) on a sequence of per-axis values
MoveFirstTo(s, dst) ==
  [ i \in 1..Len(s) |->
      IF i = dst + 1 THEN s[1]
      ELSE IF i < dst + 1 THEN s[i + 1]
      ELSE s[i] ]

\* line 321 / 323
MoveAxis(t, dst) ==
  [ t EXCEPT !.ax = MoveFirstTo(t.ax, dst), !.ext = MoveFirstTo(t.ext, dst) ]

\* line 327 / 329: t[0]
DropLeading(t) ==
  [ t EXCEPT !.ax = Tail(t.ax), !.ext = Tail(t.ext), !.ch = SubSeq(t.ch, 1, 1) ]

\* lines 319-329, for mean
PlaceMean(cfg, chan, m) ==
  IF chan # None THEN MoveAxis(m, Val(chan))
  ELSE IF cfg.n_channel_out = 1 THEN DropLeading(m)
  ELSE m

\* lines 319-329, for scale
PlaceScale(cfg, chan, s) ==
  IF chan # None
    THEN (IF cfg.probabilistic THEN Some(MoveAxis(Val(s), Val(chan))) ELSE s)
  ELSE IF cfg.n_channel_out = 1 /\ cfg.probabilistic THEN Some(DropLeading(Val(s)))
  ELSE s

\* ------------------------------------------- resizer and normalizer
\* PadAndCropResizer and the normalizer live in csbdeep/predict.py and the
\* caller's code; they are modelled from their specified contract.

NoPad == [ set |-> FALSE, pad |-> << >>, by |-> 0 ]

PadAmount(s, d) == (d - (s % d)) % d

\* resizer.before(x, div_n, channel): the padded tensor
ResizerBefore(t, d, chan) ==
  [ t EXCEPT !.ext = [ i \in 1..Len(t.ext) |->
                         IF chan # None /\ i = Val(chan) + 1 THEN t.ext[i]
                         ELSE t.ext[i] + PadAmount(t.ext[i], d) ] ]

\* resizer.before: the padding amounts it records, one per spatial axis
ResizerPad(t, d, chan) ==
  [ k \in 1..Len(SpatialPos(t, chan)) |-> PadAmount(t.ext[SpatialPos(t, chan)[k]], d) ]

\* resizer.after(x, channel=0) can crop: a matching before has recorded pads
ResizerCanCrop(r, t) == r.set /\ Len(r.pad) = Len(t.ext) - 1

\* resizer.after(x, channel=0): crops the recorded amounts off the axes after the first
ResizerAfter(r, t) ==
  [ t EXCEPT !.ext = [ i \in 1..Len(t.ext) |->
                         IF i = 1 THEN t.ext[i] ELSE Max(0, t.ext[i] - r.pad[i - 1]) ] ]

NormalizerBefore(t) == [ t EXCEPT !.norm = TRUE ]

NormalizerAfter(t) == [ t EXCEPT !.norm = FALSE ]

\* ------------------------------------------------------------ states

Shapes == UNION { [ 1..n -> 1..MaxExtent ] : n \in ImgNdims }

ChannelArgs == { None } \cup { Some(k) : k \in (0 - 4)..3 }

Configs ==
  [ n_channel_in : ChannelCounts, n_channel_out : ChannelCounts,
    probabilistic : BOOLEAN, unet_n_depth : { unet_n_depth } ]

\* line 268: resizer=PadAndCropResizer() is evaluated once, when predict is
\* defined: every call that omits the argument gets that one object
DefaultResizer == 0

ResizerOf(c) == IF args[c].resizer = None THEN DefaultResizer ELSE Val(args[c].resizer)

ArgSets ==
  [ shape : Shapes, channel : ChannelArgs, n_tiles : 1..MaxTiles0,
    do_after : BOOLEAN ]

NoArgs == [ shape |-> << 1 >>, channel |-> None, n_tiles |-> 1, do_after |-> FALSE,
            resizer |-> None ]

WithResizer(a, r) ==
  [ shape |-> a.shape, channel |-> a.channel, n_tiles |-> a.n_tiles,
    do_after |-> a.do_after, resizer |-> r ]

TrainInit ==
  /\ model_prepared = FALSE
  /\ callbacks = None
  /\ trainCfg = [ checkpoint |-> TRUE, tensorboard |-> TRUE, reduce_lr |-> TRUE ]
  /\ trainLog = << >>

CallInit ==
  /\ resizers = [ r \in {DefaultResizer} \cup Calls |-> NoPad ]
  /\ channel = [ c \in Calls |-> None ]
  /\ n_tiles = [ c \in Calls |-> args[c].n_tiles ]
  /\ x = [ c \in Calls |-> None ]
  /\ mean = [ c \in Calls |-> None ]
  /\ scale = [ c \in Calls |-> None ]
  /\ raised = [ c \in Calls |-> "" ]
  /\ log = [ c \in Calls |-> << >> ]
  /\ padOf = [ c \in Calls |-> [ before |-> 0, after |-> 0 ] ]

\* one predict call on an instance, with any arguments
Init ==
  /\ config \in Configs
  /\ T \in 1..MaxT
  /\ \E a \in ArgSets, r \in { None, Some(1) } :
       args = [ c \in Calls |-> IF c = 1 THEN WithResizer(a, r) ELSE NoArgs ]
  /\ pc = [ c \in Calls |-> IF c = 1 THEN "validate" ELSE "off" ]
  /\ CallInit
  /\ TrainInit

\* ----------------------------------------------------------- predict

Raise(c, e) ==
  /\ raised' = [ raised EXCEPT ![c] = e ]
  /\ pc' = [ pc EXCEPT ![c] = "raised" ]

\* an entry of log: what was invoked, the call's n_tiles then, and the tensor it
\* was given (a pass) or gave back (a resizer or normalizer step)
Ev(name, n, t) == [ ev |-> name, n_tiles |-> n, x |-> t ]

Logged(c, name, t) == log' = [ log EXCEPT ![c] = Append(@, Ev(name, n_tiles[c], t)) ]

\* lines 270-276, validation passes
Validate(c) ==
  /\ pc[c] = "validate"
  /\ ArgsValid(config, args[c])
  /\ channel' = [ channel EXCEPT ![c] = ChannelAfterValidation(args[c]) ]
  /\ pc' = [ pc EXCEPT ![c] = "resize" ]
  /\ UNCHANGED << config, T, resizers, args, n_tiles, x, mean, scale, raised, log, padOf >>
  /\ UNCHANGED trainVars

\* lines 270-276, _raise(ValueError())
ValidateFails(c) ==
  /\ pc[c] = "validate"
  /\ ~ ArgsValid(config, args[c])
  /\ Raise(c, "ValueError")
  /\ UNCHANGED << config, T, resizers, args, channel, n_tiles, x, mean, scale, log, padOf >>
  /\ UNCHANGED trainVars

\* line 282
ResizeBefore(c) ==
  /\ pc[c] = "resize"
  /\ x' = [ x EXCEPT ![c] =
              Some(ResizerBefore(ImgTensor(args[c].shape), div_n(config), channel[c])) ]
  /\ resizers' = [ resizers EXCEPT ![ResizerOf(c)] =
                     [ set |-> TRUE,
                       pad |-> ResizerPad(ImgTensor(args[c].shape), div_n(config), channel[c]),
                       by  |-> c ] ]
  /\ padOf' = [ padOf EXCEPT ![c].before = resizers[ResizerOf(c)].by ]
  /\ Logged(c, "resizer.before", Val(x'[c]))
  /\ pc' = [ pc EXCEPT ![c] = "normalize" ]
  /\ UNCHANGED << config, T, args, channel, n_tiles, mean, scale, raised >>
  /\ UNCHANGED trainVars

\* line 285
NormalizeBefore(c) ==
  /\ pc[c] = "normalize"
  /\ x' = [ x EXCEPT ![c] = Some(NormalizerBefore(Val(x[c]))) ]
  /\ Logged(c, "normalizer.before", Val(x'[c]))
  /\ pc' = [ pc EXCEPT ![c] = "loop" ]
  /\ UNCHANGED << config, T, resizers, args, channel, n_tiles, mean, scale, raised, padOf >>
  /\ UNCHANGED trainVars

\* lines 292-303: a pass that completes
PassOk(c) ==
  /\ pc[c] = "loop"
  /\ x' = [ x EXCEPT ![c] = Some(PassResult(config, Val(x[c]), channel[c], n_tiles[c])) ]
  /\ Logged(c, "pass.ok", Val(x[c]))
  /\ pc' = [ pc EXCEPT ![c] = "check" ]
  /\ UNCHANGED << config, T, resizers, args, channel, n_tiles, mean, scale, raised, padOf >>
  /\ UNCHANGED trainVars

\* lines 293-306: a pass that raises e. The assignment to x at line 295 / 302
\* is not reached; the except clause retries with more tiles, anything it does
\* not catch leaves predict
PassRaises(c, e) ==
  /\ pc[c] = "loop"
  /\ Logged(c, IF e = "ResourceExhaustedError" THEN "pass.oom" ELSE "pass.error", Val(x[c]))
  /\ x' = [ x EXCEPT ![c] = Some(XAfterRaise(config, Val(x[c]), channel[c], n_tiles[c])) ]
  /\ IF Caught(e)
       THEN /\ n_tiles' = [ n_tiles EXCEPT ![c] = NextTiles(n_tiles[c]) ]
            /\ UNCHANGED << pc, raised >>
       ELSE /\ Raise(c, e)
            /\ UNCHANGED n_tiles
  /\ UNCHANGED << config, T, resizers, args, channel, mean, scale, padOf >>
  /\ UNCHANGED trainVars

\* the device runs out of memory (only below T tiles)
PassExhausted(c) ==
  /\ n_tiles[c] < T
  /\ PassRaises(c, "ResourceExhaustedError")

\* the pass raises anything else
PassFails(c) == PassRaises(c, "OtherError")

\* line 308
CheckShape(c) ==
  /\ pc[c] = "check"
  /\ IF ShapeChecks(config, Val(x[c]))
       THEN pc' = [ pc EXCEPT ![c] = "crop" ] /\ UNCHANGED raised
       ELSE Raise(c, "ValueError")
  /\ UNCHANGED << config, T, resizers, args, channel, n_tiles, x, mean, scale, log, padOf >>
  /\ UNCHANGED trainVars

\* line 310
ResizeAfter(c) ==
  /\ pc[c] = "crop"
  /\ padOf' = [ padOf EXCEPT ![c].after = resizers[ResizerOf(c)].by ]
  /\ IF ResizerCanCrop(resizers[ResizerOf(c)], Val(x[c]))
       THEN /\ x' = [ x EXCEPT ![c] = Some(ResizerAfter(resizers[ResizerOf(c)], Val(x[c]))) ]
            /\ pc' = [ pc EXCEPT ![c] = "split" ]
            /\ UNCHANGED raised
       ELSE /\ Raise(c, "ResizerError")
            /\ UNCHANGED x
  /\ Logged(c, "resizer.after", Val(x'[c]))
  /\ UNCHANGED << config, T, resizers, args, channel, n_tiles, mean, scale >>
  /\ UNCHANGED trainVars

\* lines 313-317
Split(c) ==
  /\ pc[c] = "split"
  /\ mean' = [ mean EXCEPT ![c] = Some(SplitMean(config, Val(x[c]))) ]
  /\ scale' = [ scale EXCEPT ![c] = SplitScale(config, Val(x[c])) ]
  /\ pc' = [ pc EXCEPT ![c] = "place" ]
  /\ UNCHANGED << config, T, resizers, args, channel, n_tiles, x, raised, log, padOf >>
  /\ UNCHANGED trainVars

\* lines 319-329
PlaceChannel(c) ==
  /\ pc[c] = "place"
  /\ mean' = [ mean EXCEPT ![c] = Some(PlaceMean(config, channel[c], Val(mean[c]))) ]
  /\ scale' = [ scale EXCEPT ![c] = PlaceScale(config, channel[c], scale[c]) ]
  /\ pc' = [ pc EXCEPT ![c] = "denormalize" ]
  /\ UNCHANGED << config, T, resizers, args, channel, n_tiles, x, raised, log, padOf >>
  /\ UNCHANGED trainVars

\* lines 331-335, normalizer.do_after is false: return mean, scale
ReturnPlain(c) ==
  /\ pc[c] = "denormalize"
  /\ ~ args[c].do_after
  /\ pc' = [ pc EXCEPT ![c] = "returned" ]
  /\ UNCHANGED << config, T, resizers, args, channel, n_tiles, x, mean, scale, raised,
                  log, padOf >>
  /\ UNCHANGED trainVars

\* lines 331-335, normalizer.do_after is true and the channel counts agree
NormalizeAfter(c) ==
  /\ pc[c] = "denormalize"
  /\ args[c].do_after
  /\ config.n_channel_in = config.n_channel_out
  /\ mean' = [ mean EXCEPT ![c] = Some(NormalizerAfter(Val(mean[c]))) ]
  /\ scale' = [ scale EXCEPT ![c] =
                  IF scale[c] = None THEN None ELSE Some(NormalizerAfter(Val(scale[c]))) ]
  /\ Logged(c, "normalizer.after", Val(mean'[c]))
  /\ pc' = [ pc EXCEPT ![c] = "returned" ]
  /\ UNCHANGED << config, T, resizers, args, channel, n_tiles, x, raised, padOf >>
  /\ UNCHANGED trainVars

\* line 332, _raise(ValueError()): do_after with unequal channel counts
DoAfterFails(c) ==
  /\ pc[c] = "denormalize"
  /\ args[c].do_after
  /\ config.n_channel_in # config.n_channel_out
  /\ Raise(c, "ValueError")
  /\ UNCHANGED << config, T, resizers, args, channel, n_tiles, x, mean, scale, log, padOf >>
  /\ UNCHANGED trainVars

Predict(c) ==
  \/ Validate(c)
  \/ ValidateFails(c)
  \/ ResizeBefore(c)
  \/ NormalizeBefore(c)
  \/ PassOk(c)
  \/ PassExhausted(c)
  \/ PassFails(c)
  \/ CheckShape(c)
  \/ ResizeAfter(c)
  \/ Split(c)
  \/ PlaceChannel(c)
  \/ ReturnPlain(c)
  \/ NormalizeAfter(c)
  \/ DoAfterFails(c)

Next == \E c \in Calls : Predict(c)

Spec == Init /\ [][Next]_vars

\* one predict call on a 2-axis image, with any tile count and any device
InitRetry ==
  /\ config \in Configs
  /\ T \in 1..MaxT
  /\ \E a \in { b \in ArgSets : Len(b.shape) = 2 /\ b.channel \in { None, Some(0 - 1) } } :
       args = [ c \in Calls |-> IF c = 1 THEN WithResizer(a, None) ELSE NoArgs ]
  /\ pc = [ c \in Calls |-> IF c = 1 THEN "validate" ELSE "off" ]
  /\ CallInit
  /\ TrainInit

\* the body of predict is sequential code: a call that can take a step takes it
FairSpec == InitRetry /\ [][Next]_vars /\ \A c \in Calls : WF_vars(Predict(c))

\* --------------------------------------- two predict calls on one instance

ConcArgSets ==
  [ shape : { << 1, 2 >>, << 2, 2 >> }, channel : { None, Some(2) }, n_tiles : { 1 },
    do_after : BOOLEAN ]

\* two calls in flight (two threads, or one after the other), each with a
\* resizer of the caller's own or with the argument omitted
InitConc ==
  /\ config \in { cf \in Configs : cf.n_channel_in = 1 /\ ~ cf.probabilistic }
  /\ T = 2
  /\ \E a1 \in ConcArgSets, a2 \in ConcArgSets, r1 \in { None, Some(1) }, r2 \in { None, Some(2) } :
       args = [ c \in Calls |-> IF c = 1 THEN WithResizer(a1, r1) ELSE WithResizer(a2, r2) ]
  /\ pc = [ c \in Calls |-> "validate" ]
  /\ CallInit
  /\ TrainInit

SpecConc == InitConc /\ [][Next]_vars

\* ------------------------------------------ prepare_for_training and train

\* lines 205-217: the callbacks a completed preparation leaves in self.callbacks
PreparedCallbacks(tc) ==
  << "prepare_model" >>
  \o (IF tc.checkpoint THEN << "ModelCheckpoint" >> ELSE << >>)
  \o (IF tc.tensorboard THEN << "CARETensorBoard" >> ELSE << >>)
  \o (IF tc.reduce_lr THEN << "ReduceLROnPlateau" >> ELSE << >>)

\* lines 205-217 left by an exception after k callbacks were put in self.callbacks
\* (k = 0: train.prepare_model raised, nothing was assigned)
CallbacksAfterFailure(old, tc, k) ==
  IF k = 0 THEN old ELSE Some(SubSeq(PreparedCallbacks(tc), 1, k))

\* line 239
NeedsPrepare(prepared) == ~ prepared

\* a preparation that does not record that it ran
PreparedAfterForgotten(prepared) == prepared

\* line 219
PreparedAfter(prepared) == TRUE

Event(call, by, completed, cbs) ==
  [ call |-> call, by |-> by, completed |-> completed, callbacks |-> cbs ]

\* the calls made on the instance so far
CallsMade(l) == Cardinality({ i \in 1..Len(l) : l[i].by = "caller" })

\* lines 184-219: an explicit prepare_for_training that completes
PrepareForTraining ==
  /\ CallsMade(trainLog) < MaxTrainCalls
  /\ callbacks' = Some(PreparedCallbacks(trainCfg))
  /\ model_prepared' = PreparedAfter(model_prepared)
  /\ trainLog' = Append(trainLog, Event("prepare_for_training", "caller", TRUE, None))
  /\ UNCHANGED trainCfg
  /\ UNCHANGED predictVars

\* lines 184-219: an explicit prepare_for_training that raises before line 219
PrepareForTrainingFails ==
  /\ CallsMade(trainLog) < MaxTrainCalls
  /\ \E k \in 0..Len(PreparedCallbacks(trainCfg)) :
       callbacks' = CallbacksAfterFailure(callbacks, trainCfg, k)
  /\ trainLog' = Append(trainLog, Event("prepare_for_training", "caller", FALSE, None))
  /\ UNCHANGED << model_prepared, trainCfg >>
  /\ UNCHANGED predictVars

\* lines 222-257 on a prepared instance: fit_generator with self.callbacks
TrainPrepared ==
  /\ CallsMade(trainLog) < MaxTrainCalls
  /\ ~ NeedsPrepare(model_prepared)
  /\ trainLog' = trainLog \o << Event("train", "caller", TRUE, None),
                                Event("fit", "train", TRUE, callbacks) >>
  /\ UNCHANGED << model_prepared, callbacks, trainCfg >>
  /\ UNCHANGED predictVars

\* lines 222-257 on an unprepared instance: prepare_for_training(), then fit_generator
TrainUnprepared ==
  /\ CallsMade(trainLog) < MaxTrainCalls
  /\ NeedsPrepare(model_prepared)
  /\ callbacks' = Some(PreparedCallbacks(trainCfg))
  /\ model_prepared' = PreparedAfter(model_prepared)
  /\ trainLog' = trainLog \o << Event("train", "caller", TRUE, None),
                                Event("prepare_for_training", "train", TRUE, None),
                                Event("fit", "train", TRUE, callbacks') >>
  /\ UNCHANGED trainCfg
  /\ UNCHANGED predictVars

\* lines 239-240: the implicit prepare_for_training raises, and train with it
TrainPrepareFails ==
  /\ CallsMade(trainLog) < MaxTrainCalls
  /\ NeedsPrepare(model_prepared)
  /\ \E k \in 0..Len(PreparedCallbacks(trainCfg)) :
       callbacks' = CallbacksAfterFailure(callbacks, trainCfg, k)
  /\ trainLog' = trainLog \o << Event("train", "caller", FALSE, None),
                                Event("prepare_for_training", "train", FALSE, None) >>
  /\ UNCHANGED << model_prepared, trainCfg >>
  /\ UNCHANGED predictVars

\* lines 131-138: a fresh instance, no predict call in flight
InitTrain ==
  /\ config \in { cf \in Configs : cf.n_channel_in = 1 /\ cf.n_channel_out = 1 }
  /\ T = 1
  /\ args = [ c \in Calls |-> NoArgs ]
  /\ pc = [ c \in Calls |-> "off" ]
  /\ CallInit
  /\ model_prepared = FALSE
  /\ callbacks = None
  /\ trainCfg \in [ checkpoint : BOOLEAN, tensorboard : BOOLEAN, reduce_lr : BOOLEAN ]
  /\ trainLog = << >>

NextTrain ==
  \/ PrepareForTraining
  \/ PrepareForTrainingFails
  \/ TrainPrepared
  \/ TrainUnprepared
  \/ TrainPrepareFails

SpecTrain == InitTrain /\ [][NextTrain]_vars

\* ------------------------------------------------------------ claims

IsPass(e) == e.ev \in { "pass.ok", "pass.oom", "pass.error" }

\* the inference passes a call has run, in order
Passes(c) == SelectSeq(log[c], IsPass)

Invoked(c, name) == \E i \in 1..Len(log[c]) : log[c][i].ev = name

\* C1: within one predict call every pass that ends in memory exhaustion is
\* followed by a new pass whose tile count is max(4, 2*n_tiles); the tile count
\* strictly increases from one pass to the next and is never below the
\* caller's n_tiles.
C1_RetryMonotone ==
  \A c \in Calls :
    LET p == Passes(c) IN
    /\ \A i \in 1..Len(p) : p[i].n_tiles >= args[c].n_tiles
    /\ \A i \in 1..Len(p) :
         p[i].ev = "pass.oom" =>
           LET n == p[i].n_tiles
               m == IF 2 * n > 4 THEN 2 * n ELSE 4
           IN  /\ m > n
               /\ IF i < Len(p) THEN p[i + 1].n_tiles = m
                  ELSE pc[c] = "loop" /\ n_tiles[c] = m
    /\ \A i \in 1..(Len(p) - 1) : p[i].ev = "pass.oom" /\ p[i + 1].n_tiles > p[i].n_tiles

\* two passes ran out of memory and the third completed
C1_Witness ==
  \E c \in Calls :
    /\ Len(Passes(c)) = 3
    /\ Passes(c)[3].ev = "pass.ok"
    /\ pc[c] = "check"

\* C2: a failure of an inference pass other than memory exhaustion leaves
\* predict from that pass: no further pass, n_tiles unchanged, no
\* post-processing step run.
C2_OtherFailurePropagates ==
  \A c \in Calls : \A i \in 1..Len(log[c]) :
    log[c][i].ev = "pass.error" =>
      /\ i = Len(log[c])
      /\ pc[c] = "raised"
      /\ raised[c] = "OtherError"
      /\ n_tiles[c] = log[c][i].n_tiles
      /\ mean[c] = None
      /\ scale[c] = None

\* a retried call whose second pass failed with another error
C2_Witness ==
  \E c \in Calls :
    /\ Len(Passes(c)) = 2
    /\ Passes(c)[1].ev = "pass.oom"
    /\ Passes(c)[2].ev = "pass.error"
    /\ raised[c] = "OtherError"

\* C3: two predict calls that omit the resizer argument each use a resizer of
\* their own: the padding a call's resizer.before recorded is never
\* overwritten by the other call's resizer.before nor read by the other
\* call's resizer.after.
C3_CallScopedResizer ==
  \A c \in Calls :
    args[c].resizer = None =>
      /\ padOf[c].before \in { 0, c }
      /\ padOf[c].after \in { 0, c }

\* C4: with normalizer.do_after and n_channel_in # n_channel_out, predict
\* fails at once: no inference pass is ever run for such a call.
C4_DoAfterMismatchFailsFirst ==
  \A c \in Calls :
    (pc[c] # "off" /\ args[c].do_after /\ config.n_channel_in # config.n_channel_out)
      => Passes(c) = << >>

\* the cases (a), (b), (c) in which predict must reject its arguments
RejectedByContract(cfg, a) ==
  LET nd == Len(a.shape) IN
  IF a.channel = None THEN cfg.n_channel_in # 1
  ELSE LET v == Val(a.channel) IN
       IF v < 0 - nd \/ v >= nd THEN TRUE
       ELSE a.shape[(IF v < 0 THEN v + nd ELSE v) + 1] # cfg.n_channel_in

\* C5: a call in case (a), (b) or (c) is rejected with ValueError before
\* resizer.before, normalizer.before or any pass is invoked; every other call
\* proceeds to resizer.before with a channel that is absent or a non-negative
\* index below img.ndim.
C5_Validation ==
  \A c \in Calls :
    pc[c] \notin { "off", "validate" } =>
      IF RejectedByContract(config, args[c])
        THEN /\ pc[c] = "raised"
             /\ raised[c] = "ValueError"
             /\ log[c] = << >>
             /\ x[c] = None
        ELSE /\ pc[c] = "resize" \/ (log[c] # << >> /\ log[c][1].ev = "resizer.before")
             /\ channel[c] = None <=> args[c].channel = None
             /\ channel[c] # None =>
                  (Val(channel[c]) >= 0 /\ Val(channel[c]) < Len(args[c].shape))

\* a call with a negative channel index that passed validation and was resized
C5_Witness ==
  \E c \in Calls :
    /\ args[c].channel # None
    /\ Val(args[c].channel) < 0
    /\ pc[c] = "normalize"

\* the hypothesis of C6: no pass run with n_tiles >= T fails (PassExhausted
\* already keeps memory exhaustion below T)
NoFailureFromT ==
  \A c \in Calls : ~ (raised[c] = "OtherError" /\ n_tiles[c] >= T)

\* C6 as stated: if every pass with n_tiles >= T completes, every validated
\* call eventually leaves the retry loop into post-processing, and memory
\* exhaustion never reaches the caller.
C6_AlwaysReachesPostProcessing ==
  ([] NoFailureFromT) =>
    \A c \in Calls :
      /\ [] (raised[c] # "ResourceExhaustedError")
      /\ (pc[c] = "resize") ~> (pc[c] = "check")

\* C6, amended: if every pass with n_tiles >= T completes, every validated
\* call eventually leaves the retry loop, into post-processing or by the
\* failure (not memory exhaustion) of a pass run with n_tiles < T; memory
\* exhaustion never reaches the caller.
C6_RetryLoopEnds ==
  ([] NoFailureFromT) =>
    \A c \in Calls :
      /\ [] (raised[c] # "ResourceExhaustedError")
      /\ (pc[c] = "resize") ~>
           (pc[c] = "check" \/ (raised[c] = "OtherError" /\ n_tiles[c] < T))

\* a call that returned after two passes ran out of memory
C6_Witness ==
  \E c \in Calls :
    /\ pc[c] = "returned"
    /\ Len(Passes(c)) = 3
    /\ Passes(c)[1].ev = "pass.oom"
    /\ Passes(c)[2].ev = "pass.oom"

FirstChannels(n, from) == [ k \in 1..n |-> from + k - 1 ]

\* C7: a call that returns with do_after false: if probabilistic, the output
\* has 2*n_channel_out leading channels, mean is the first n_channel_out of
\* them and scale the rest, in that order; otherwise mean is all
\* n_channel_out channels and scale is None.
C7_MeanScaleSplit ==
  \A c \in Calls :
    (pc[c] = "returned" /\ ~ args[c].do_after) =>
      LET n == config.n_channel_out IN
      IF config.probabilistic
        THEN /\ Val(x[c]).ext[1] = 2 * n
             /\ Val(x[c]).ch = FirstChannels(2 * n, 0)
             /\ Val(mean[c]).ch = FirstChannels(n, 0)
             /\ scale[c] # None
             /\ Val(scale[c]).ch = FirstChannels(n, n)
        ELSE /\ Val(x[c]).ext[1] = n
             /\ Val(mean[c]).ch = FirstChannels(n, 0)
             /\ scale[c] = None

\* a probabilistic two-channel prediction returned without denormalization
C7_Witness ==
  \E c \in Calls :
    /\ pc[c] = "returned"
    /\ ~ args[c].do_after
    /\ config.probabilistic
    /\ config.n_channel_out = 2

\* t is laid out as the input of call c is: the channel axis where the
\* caller's channel points, the input's other axes around it in their order
PlacedAsInput(c, t) ==
  LET nd == Len(args[c].shape) IN
  IF args[c].channel # None
    THEN LET v == Val(args[c].channel)
             k == IF v < 0 THEN v + nd ELSE v
         IN  /\ Len(t.ax) = nd
             /\ t.ax[k + 1] = ChanAxis
             /\ \A i \in (1..nd) \ { k + 1 } : t.ax[i] = i - 1
    ELSE config.n_channel_out = 1 => t.ax = [ i \in 1..nd |-> i - 1 ]

\* C8: in a call that returns, mean and (if present) scale have their channel
\* axis at index channel mod ndim when channel is given; when channel is
\* absent and n_channel_out = 1 they have exactly the input's axes.
C8_ChannelPlacement ==
  \A c \in Calls :
    pc[c] = "returned" =>
      /\ PlacedAsInput(c, Val(mean[c]))
      /\ scale[c] # None => PlacedAsInput(c, Val(scale[c]))

\* a probabilistic call on a 3-axis image with channel = -2 returned
C8_Witness ==
  \E c \in Calls :
    /\ pc[c] = "returned"
    /\ args[c].channel = Some(0 - 2)
    /\ Len(args[c].shape) = 3
    /\ scale[c] # None

IsPrepare(e) == e.call = "prepare_for_training"

\* a prepare_for_training call completed before entry i of trainLog
CompletedBefore(i) ==
  \E j \in 1..(i - 1) : IsPrepare(trainLog[j]) /\ trainLog[j].completed

Count(c, name) == Cardinality({ i \in 1..Len(log[c]) : log[c][i].ev = name })

\* C10: in one call resizer.before and normalizer.before are invoked once,
\* before the first pass; every pass gets that same padded, normalized input;
\* a pass that runs out of memory leaves it unchanged; resizer.after and
\* normalizer.after run only after a pass has completed.
C10_InputPreparedOnce ==
  \A c \in Calls :
    LET l == log[c] IN
    /\ Count(c, "resizer.before") <= 1
    /\ Count(c, "normalizer.before") <= 1
    /\ Passes(c) # << >> =>
         /\ l[1].ev = "resizer.before"
         /\ l[2].ev = "normalizer.before"
         /\ \A i \in 1..Len(l) : IsPass(l[i]) => (i > 2 /\ l[i].x = l[2].x)
    /\ (l # << >> /\ l[Len(l)].ev = "pass.oom") => x[c] = Some(l[2].x)
    /\ \A i \in 1..Len(l) :
         l[i].ev \in { "resizer.after", "normalizer.after" } =>
           \E j \in 1..(i - 1) :
             /\ l[j].ev = "pass.ok"
             /\ \A k \in (j + 1)..i : ~ IsPass(l[k])

\* a call that was retried once and then cropped and denormalized its result
C10_Witness ==
  \E c \in Calls :
    /\ Invoked(c, "pass.oom")
    /\ Invoked(c, "resizer.after")
    /\ Invoked(c, "normalizer.after")

====
